---- MODULE Spec2Model ----
(***************************************************************************)
(* The project tree of the writing application (snapshot part_000): the    *)
(* forest held in React state, the localStorage slot 'projects', the       *)
(* selection snapshot, the editor text, and every handler that changes     *)
(* them.  One action per handler; a handler is atomic (single-threaded     *)
(* event loop), including the render that follows its state update.        *)
(*                                                                         *)
(* Encodings                                                               *)
(*  - a string of plain text is a sequence of one-character strings;       *)
(*  - a JS number that may be NaN or (after JSON) null is a record with a  *)
(*    tag k: "num" (a reduced fraction num/den), "nan" or "null";          *)
(*  - an array entry is a node record (k = "node") or a hole: "undefined"  *)
(*    in memory, "null" in JSON text and after parsing it;                 *)
(*  - the optional content of a node is tagged "absent", "empty" (''),     *)
(*    "raw" (the serialized editor state) or "garbage" (an undecodable     *)
(*    string);                                                             *)
(*  - a text (file or storage value) is tagged "absent" (getItem gives     *)
(*    null), "empty" (''), "corrupt" (JSON.parse throws) or "json".        *)
(*  - Date.now() and new Date().toISOString() are both the clock `now`.    *)
(*                                                                         *)
(* Specifications                                                          *)
(*  - Spec: the whole program, runs of up to MaxSteps events;              *)
(*  - SpecCodec: export and import on sample forests;                      *)
(*  - SpecOps: each tree handler applied once to a sample forest, with     *)
(*    references that may be stale;                                        *)
(*  - SpecDerive: one content save of a text of n words against a goal g;  *)
(*  - SpecWords: one content save of every text of up to MaxLen characters;*)
(*  - SpecStale: a delete or a clear, load or import under a selected      *)
(*    node, then a save or metadata edit through the selection;            *)
(*  - SpecImport: up to MaxEdits edits between the start of a file read    *)
(*    and its onload.                                                      *)
(*                                                                         *)
(* Left out                                                                *)
(*  - editingId: which rename box is open; handleRename is offered for     *)
(*    every node on screen;                                                *)
(*  - handleSaveNewProject: its form is shown only while                   *)
(*    isCreatingNewProject holds, and no handler of this snapshot sets it; *)
(*  - object identity: a click on a node always re-runs the selection      *)
(*    effect;                                                              *)
(*  - a reader.onload that arrives after a render has thrown;              *)
(*  - imported values that are not arrays.                                 *)
(***************************************************************************)
EXTENDS Integers, Sequences, FiniteSets, TLC

\* ------------------------------------------------------------------ bounds
\* the number of events (user actions, callbacks, clock ticks) in a run
MaxSteps == 6

\* ------------------------------------------------------- program constants
AverageReadingSpeed == 250
FullPercent == 100

\* ------------------------------------------------------------- JS numbers
NaN == [k |-> "nan"]
JsNull == [k |-> "null"]

Abs(n) == IF n < 0 THEN 0 - n ELSE n

RECURSIVE Gcd(_, _)
Gcd(a, b) == IF b = 0 THEN a ELSE Gcd(b, a % b)

\* the number n/d (d # 0) in lowest terms with a positive denominator
Frac(n, d) ==
  LET g == Gcd(Abs(n), Abs(d))
      s == IF d < 0 THEN 0 - 1 ELSE 1
  IN [k |-> "num", num |-> (s * n) \div g, den |-> (s * d) \div g]

Num(n) == Frac(n, 1)

\* Math.min(x, 100)
MathMin100(x) ==
  IF x.k = "nan" THEN NaN
  ELSE IF x.num >= FullPercent * x.den THEN Num(FullPercent) ELSE x

\* Math.min((newWordCount / wordCountGoal) * 100, 100); null coerces to 0,
\* n / 0 is Infinity for n > 0 and NaN for n = 0
CompletionOf(newWordCount, wordCountGoal) ==
  IF wordCountGoal.k = "nan" THEN NaN
  ELSE IF wordCountGoal.k = "null" \/ wordCountGoal.num = 0
       THEN IF newWordCount = 0 THEN NaN ELSE Num(FullPercent)
       ELSE MathMin100(Frac(newWordCount * FullPercent * wordCountGoal.den,
                            wordCountGoal.num))

\* Math.round(newWordCount / 250), newWordCount >= 0
ReadingTimeRounded(newWordCount) ==
  (2 * newWordCount + AverageReadingSpeed) \div (2 * AverageReadingSpeed)

\* Math.ceil(newWordCount / 250), newWordCount >= 0
ReadingTimeOf(newWordCount) ==
  (newWordCount + AverageReadingSpeed - 1) \div AverageReadingSpeed

\* ------------------------------------------------------------- countWords
IsSpace(c) == c = " "

\* index of the first ">" of s, 0 if there is none
FirstGt(s) ==
  IF \E i \in 1..Len(s) : s[i] = ">"
  THEN CHOOSE i \in 1..Len(s) : s[i] = ">" /\ \A j \in 1..(i - 1) : s[j] # ">"
  ELSE 0

\* content.replace(/<[^>]+>/g, '')
RECURSIVE StripTags(_)
StripTags(s) ==
  IF \A i \in 1..Len(s) : s[i] # "<" THEN s
  ELSE LET g == FirstGt(s)
       IN IF Head(s) = "<" /\ g >= 3
          THEN StripTags(SubSeq(s, g + 1, Len(s)))
          ELSE <<Head(s)>> \o StripTags(Tail(s))

\* String.prototype.trim
RECURSIVE Trim(_)
Trim(s) ==
  IF s = <<>> THEN s
  ELSE IF IsSpace(Head(s)) THEN Trim(Tail(s))
  ELSE IF IsSpace(s[Len(s)]) THEN Trim(SubSeq(s, 1, Len(s) - 1))
  ELSE s

\* a split that gives no token for the empty string
SplitLengthOrZero(s) ==
  IF s = <<>> THEN 0
  ELSE 1 + Cardinality({i \in 1..Len(s) :
                          IsSpace(s[i]) /\ (i = 1 \/ ~IsSpace(s[i - 1]))})

\* s.split(/\s+/).length: one more than the number of whitespace runs
SplitLength(s) ==
  1 + Cardinality({i \in 1..Len(s) :
                     IsSpace(s[i]) /\ (i = 1 \/ ~IsSpace(s[i - 1]))})

countWords(content) == SplitLength(Trim(StripTags(content)))

\* ---------------------------------------------------------------- content
ContentAbsent == [k |-> "absent"]
ContentEmpty == [k |-> "empty"]
ContentGarbage == [k |-> "garbage"]

\* JSON.stringify(convertToRaw(contentState))
SerializeEditor(text) == [k |-> "raw", text |-> text]

\* a selection effect that shows an undecodable payload as text
EditorForShowing(project) ==
  IF project.type = "chapter" /\ project.content.k \notin {"absent", "empty"}
  THEN IF project.content.k = "raw" THEN project.content.text ELSE <<"?">>
  ELSE <<>>

\* the selection effect: the editor state a selected node is opened with
EditorFor(project) ==
  IF project.type = "chapter" /\ project.content.k \notin {"absent", "empty"}
  THEN IF project.content.k = "raw" THEN project.content.text ELSE <<>>
  ELSE <<>>

\* ------------------------------------------------------------------ nodes
Undefined == [k |-> "undefined"]
NullEntry == [k |-> "null"]

DefaultMetadata(t) ==
  [status |-> "Not Started", wordCountGoal |-> Num(0), actualWordCount |-> 0,
   lastModified |-> t, creationDate |-> t, completionPercentage |-> Num(0),
   tags |-> <<>>, author |-> "", estimatedReadingTime |-> 0,
   version |-> "1.0"]

NewProject(t, name) ==
  [k |-> "node", id |-> t, name |-> name, type |-> "project",
   children |-> <<>>, content |-> ContentAbsent, metadata |-> DefaultMetadata(t)]

NewChapter(t) ==
  [k |-> "node", id |-> t, name |-> "New Chapter", type |-> "chapter",
   children |-> <<>>, content |-> ContentEmpty, metadata |-> DefaultMetadata(t)]

\* {...a, ...b}
Spread(a, b) ==
  [f \in (DOMAIN a) \cup (DOMAIN b) |-> IF f \in DOMAIN b THEN b[f] ELSE a[f]]

\* projects.filter(project => project.id !== id)
WithoutId(s, id) == LET Keep(project) == project.id # id IN SelectSeq(s, Keep)

\* the nodes of a forest, at every depth, in document order
RECURSIVE Flatten(_)
Flatten(items) ==
  IF items = <<>> THEN <<>>
  ELSE IF Head(items).k = "node"
       THEN <<Head(items)>> \o Flatten(Head(items).children) \o Flatten(Tail(items))
       ELSE Flatten(Tail(items))

\* ------------------------------------------------------- tree operations
\* addChapterToProject: the root list only
addChapterToProject(projects, projectId, newChapter) ==
  [i \in 1..Len(projects) |->
     IF projects[i].id = projectId
     THEN [projects[i] EXCEPT !.children = Append(@, newChapter)]
     ELSE projects[i]]

\* a delete that falls back on the first entry when no entry has the id
deleteProjectOrFirst(projects, projectId) ==
  IF \E i \in 1..Len(projects) : projects[i].id = projectId
  THEN WithoutId(projects, projectId)
  ELSE SubSeq(projects, 2, Len(projects))

\* projects.filter(project => project.id !== projectId)
deleteProject(projects, projectId) == WithoutId(projects, projectId)

\* the map of handleDeleteChapter: the root list only
deleteChapter(projects, projectId, chapterId) ==
  [i \in 1..Len(projects) |->
     IF projects[i].id = projectId
     THEN [projects[i] EXCEPT !.children = WithoutId(@, chapterId)]
     ELSE projects[i]]

\* an update that adds a chapter when no entry of the list has the id
updateProjectContentOrAdd(projects, id, content, metadata) ==
  IF \E i \in 1..Len(projects) : projects[i].id = id
  THEN [i \in 1..Len(projects) |->
          IF projects[i].id = id
          THEN [projects[i] EXCEPT !.content = content,
                                   !.metadata = Spread(@, metadata)]
          ELSE projects[i]]
  ELSE Append(projects, [k |-> "node", id |-> id, name |-> "", type |-> "chapter",
                         children |-> <<>>, content |-> content,
                         metadata |-> metadata])

RECURSIVE updateProjectContent(_, _, _, _)
updateProjectContent(projects, id, content, metadata) ==
  [i \in 1..Len(projects) |->
     IF projects[i].id = id
     THEN [projects[i] EXCEPT !.content = content,
                              !.metadata = Spread(@, metadata)]
     ELSE IF Len(projects[i].children) > 0
          THEN [projects[i] EXCEPT
                  !.children = updateProjectContent(@, id, content, metadata)]
          ELSE projects[i]]

\* an update that puts the supplied record in the place of the metadata
updateProjectMetadataReplacing(projects, id, metadata) ==
  [i \in 1..Len(projects) |->
     IF projects[i].id = id
     THEN [projects[i] EXCEPT !.metadata = metadata]
     ELSE projects[i]]

RECURSIVE updateProjectMetadata(_, _, _)
updateProjectMetadata(projects, id, metadata) ==
  [i \in 1..Len(projects) |->
     IF projects[i].id = id
     THEN [projects[i] EXCEPT !.metadata = Spread(@, metadata)]
     ELSE IF Len(projects[i].children) > 0
          THEN [projects[i] EXCEPT
                  !.children = updateProjectMetadata(@, id, metadata)]
          ELSE projects[i]]

\* a rename that looks for the id in the list it is given only
updateProjectNameFlat(projects, id, newName) ==
  [i \in 1..Len(projects) |->
     IF projects[i].id = id
     THEN [projects[i] EXCEPT !.name = newName]
     ELSE projects[i]]

RECURSIVE updateProjectName(_, _, _)
updateProjectName(projects, id, newName) ==
  [i \in 1..Len(projects) |->
     IF projects[i].id = id
     THEN [projects[i] EXCEPT !.name = newName]
     ELSE IF Len(projects[i].children) > 0
          THEN [projects[i] EXCEPT
                  !.children = updateProjectName(@, id, newName)]
          ELSE projects[i]]

\* const [reorderedItem] = items.splice(index, 1): the list that is left
SpliceOut(items, index) ==
  IF index < Len(items)
  THEN SubSeq(items, 1, index) \o SubSeq(items, index + 2, Len(items))
  ELSE items

\* ... and the item taken: undefined when index is past the end
SpliceTaken(items, index) ==
  IF index < Len(items) THEN items[index + 1] ELSE Undefined

\* items.splice(index, 0, item): index is clamped to the length
SpliceIn(items, index, item) ==
  LET at == IF index > Len(items) THEN Len(items) ELSE index
  IN SubSeq(items, 1, at) \o <<item>> \o SubSeq(items, at + 1, Len(items))

\* the body of onDragEnd for a result with a destination
Reorder(projects, sourceIndex, destinationIndex) ==
  SpliceIn(SpliceOut(projects, sourceIndex), destinationIndex,
           SpliceTaken(projects, sourceIndex))

\* ------------------------------------------------------------------- JSON
JsonNumber(x) == IF x.k = "nan" THEN JsNull ELSE x

JsonMetadata(m) ==
  [m EXCEPT !.wordCountGoal = JsonNumber(@),
            !.completionPercentage = JsonNumber(@)]

\* a stringify that prints the children of every node as []
JsonArrayShallow(items) ==
  [i \in 1..Len(items) |->
     IF items[i].k = "node"
     THEN [items[i] EXCEPT !.children = <<>>,
                           !.metadata = JsonMetadata(@)]
     ELSE NullEntry]

\* JSON.stringify of an array of nodes: NaN and undefined both print as null
RECURSIVE JsonArray(_)
JsonArray(items) ==
  [i \in 1..Len(items) |->
     IF items[i].k = "node"
     THEN [items[i] EXCEPT !.children = JsonArray(@),
                           !.metadata = JsonMetadata(@)]
     ELSE NullEntry]

JsonStringify(projects) == [k |-> "json", v |-> JsonArray(projects)]

TextAbsent == [k |-> "absent"]
TextEmpty == [k |-> "empty"]
TextCorrupt == [k |-> "corrupt"]

\* JSON.parse throws a SyntaxError on '' and on text that is not JSON
ParseThrows(text) == text.k # "json"

\* JSON.parse of text that parses
JsonParse(text) == text.v

\* localStorage.setItem('projects', JSON.stringify(projects))
saveProjectsToLocalStorage(projects) == JsonStringify(projects)

\* loadProjectsFromLocalStorage: '' and null are falsy
LoadThrows(stored) == stored.k \notin {"absent", "empty"} /\ ParseThrows(stored)

loadProjectsFromLocalStorage(stored) ==
  IF stored.k \in {"absent", "empty"} THEN <<>> ELSE JsonParse(stored)

getInitialProjects(stored) == loadProjectsFromLocalStorage(stored)

\* ----------------------------------------------------------------- render
\* renderProjects walks the root list and the children of every node of
\* type 'project'; it throws on an entry that is undefined or null
RECURSIVE RenderThrows(_)
RenderThrows(items) ==
  \E i \in 1..Len(items) :
     \/ items[i].k # "node"
     \/ items[i].type = "project" /\ RenderThrows(items[i].children)

\* the nodes renderProjects draws (each with its Rename and Delete button)
RECURSIVE Rendered(_)
Rendered(items) ==
  {items[i] : i \in 1..Len(items)} \cup
  UNION {Rendered(items[i].children) :
           i \in {j \in 1..Len(items) : items[j].type = "project"}}

\* the lists renderProjects wraps in a Droppable, each named by the path
\* (1-based positions) from the root list to its parent; its level is the
\* length of the path
RECURSIVE Droppables(_, _)
Droppables(items, path) ==
  {path} \cup
  UNION {Droppables(items[i].children, Append(path, i)) :
           i \in {j \in 1..Len(items) : items[j].type = "project"}}

RECURSIVE ListAt(_, _)
ListAt(items, path) ==
  IF path = <<>> THEN items ELSE ListAt(items[Head(path)].children, Tail(path))

\* ----------------------------------------------------------------- inputs
\* what the user types into the rename box
Names == {"X"}

\* what the user leaves in the editor
Texts == {<<"a">>, <<"<", "b", ">", "a", " ", "a">>}

\* the onChange events of the metadata editor, as <<field, value>>; the goal
\* is parseInt(e.target.value), NaN for an emptied box
MetaEdits ==
  {<<"status", "Completed">>, <<"wordCountGoal", NaN>>,
   <<"wordCountGoal", Num(2)>>, <<"tags", <<"x">>>>, <<"author", "Ann">>,
   <<"version", "2.0">>}

SampleChapter(id, content) ==
  [k |-> "node", id |-> id, name |-> "Ch", type |-> "chapter",
   children |-> <<>>, content |-> content, metadata |-> DefaultMetadata(0)]

SampleForest ==
  <<[k |-> "node", id |-> 7, name |-> "Novel", type |-> "project",
     children |-> <<SampleChapter(8, ContentGarbage),
                    SampleChapter(9, ContentEmpty)>>,
     content |-> ContentAbsent, metadata |-> DefaultMetadata(0)]>>

\* the files the user can pick in the import dialog: one that is not JSON,
\* one that is JSON but no list of nodes ('[null]'), one exported forest
FileCorrupt == TextCorrupt
FileNotNodes == [k |-> "json", v |-> <<NullEntry>>]
FileSample == JsonStringify(SampleForest)
ImportFiles == {FileCorrupt, FileNotNodes, FileSample}

\* what the storage slot may hold before the application first runs
InitialSlots == {TextAbsent, TextCorrupt}

\* ------------------------------------------------------------------ state
VARIABLES
  phase,                \* "boot" (not mounted), "running", "crashed" (render threw)
  projects,             \* useProjectsWithStorage: the forest
  slot,                 \* localStorage 'projects'
  selectedProject,      \* <<>> (null) or <<snapshot of the selected node>>
  editorState,          \* the plain text of the editor
  isEditingMetadata,
  isCreatingNewProject,
  newProjectName,
  now,                  \* the clock
  reading,              \* <<>> or <<file>>: a FileReader read in flight
  raised,               \* the exception the last handler let escape, or "none"
  steps,                \* events so far
  lastOp                \* the last event handled, with its arguments

vars == <<phase, projects, slot, selectedProject, editorState,
          isEditingMetadata, isCreatingNewProject, newProjectName, now,
          reading, raised, steps, lastOp>>

Init ==
  /\ phase = "boot"
  /\ projects = <<>>
  /\ slot \in InitialSlots
  /\ selectedProject = <<>>
  /\ editorState = <<>>
  /\ isEditingMetadata = FALSE
  /\ isCreatingNewProject = FALSE
  /\ newProjectName = ""
  /\ now = 1
  /\ reading = <<>>
  /\ raised = "none"
  /\ steps = 0
  /\ lastOp = [op |-> "none"]

\* every event counts against the length of the run
Step == steps < MaxSteps /\ steps' = steps + 1

\* the phase after React renders the forest p
Rendering(p) == IF RenderThrows(p) THEN "crashed" ELSE "running"

\* setProjects of useProjectsWithStorage: state update, save, render
setProjects(updatedProjects) ==
  /\ projects' = updatedProjects
  /\ slot' = saveProjectsToLocalStorage(updatedProjects)
  /\ phase' = Rendering(updatedProjects)
  /\ raised' = IF RenderThrows(updatedProjects) THEN "TypeError" ELSE "none"

\* ---------------------------------------------------------------- actions
\* useState(getInitialProjects) at the first render
Mount ==
  /\ Step
  /\ phase = "boot"
  /\ IF LoadThrows(slot)
     THEN /\ phase' = "crashed"
          /\ raised' = "SyntaxError"
          /\ UNCHANGED projects
     ELSE /\ projects' = getInitialProjects(slot)
          /\ phase' = Rendering(projects')
          /\ raised' = IF RenderThrows(projects') THEN "TypeError" ELSE "none"
  /\ lastOp' = [op |-> "mount"]
  /\ UNCHANGED <<slot, selectedProject, editorState, isEditingMetadata,
                 isCreatingNewProject, newProjectName, now, reading>>

\* the user reloads the page: all React state is dropped, storage stays
Reload ==
  /\ Step
  /\ phase # "boot"
  /\ phase' = "boot"
  /\ projects' = <<>>
  /\ selectedProject' = <<>>
  /\ editorState' = <<>>
  /\ isEditingMetadata' = FALSE
  /\ isCreatingNewProject' = FALSE
  /\ newProjectName' = ""
  /\ reading' = <<>>
  /\ raised' = "none"
  /\ lastOp' = [op |-> "reload"]
  /\ UNCHANGED <<slot, now>>

\* the clock advances
Tick ==
  /\ Step
  /\ now' = now + 1
  /\ lastOp' = [op |-> "tick"]
  /\ UNCHANGED <<phase, projects, slot, selectedProject, editorState,
                 isEditingMetadata, isCreatingNewProject, newProjectName,
                 reading, raised>>

\* a New Project button that opens the name-entry form
handleCreateNewProjectAsking ==
  /\ Step
  /\ phase = "running"
  /\ isCreatingNewProject' = TRUE
  /\ raised' = "none"
  /\ lastOp' = [op |-> "createProject", id |-> now]
  /\ UNCHANGED <<phase, projects, slot, selectedProject, editorState,
                 isEditingMetadata, newProjectName, now, reading>>

handleCreateNewProject ==
  /\ Step
  /\ phase = "running"
  /\ setProjects(Append(projects, NewProject(now, newProjectName)))
  /\ isCreatingNewProject' = FALSE
  /\ newProjectName' = ""
  /\ lastOp' = [op |-> "createProject", id |-> now]
  /\ UNCHANGED <<selectedProject, editorState, isEditingMetadata, now,
                 reading>>

\* the New Chapter button of a rendered node of type 'project'
handleCreateNewChapter(project) ==
  /\ Step
  /\ phase = "running"
  /\ project.type = "project"
  /\ setProjects(addChapterToProject(projects, project.id, NewChapter(now)))
  /\ lastOp' = [op |-> "createChapter", id |-> now, parent |-> project.id]
  /\ UNCHANGED <<selectedProject, editorState, isEditingMetadata,
                 isCreatingNewProject, newProjectName, now, reading>>

handleDeleteProject(projectId) ==
  setProjects(deleteProject(projects, projectId))

handleDeleteChapter(projectId, chapterId) ==
  setProjects(deleteChapter(projects, projectId, chapterId))

\* the Delete button of a rendered node
DeleteClick(project) ==
  /\ Step
  /\ phase = "running"
  /\ IF project.type = "project"
     THEN handleDeleteProject(project.id)
     ELSE handleDeleteChapter(project.id, project.id)
  /\ lastOp' = [op |-> "delete", id |-> project.id, type |-> project.type]
  /\ UNCHANGED <<selectedProject, editorState, isEditingMetadata,
                 isCreatingNewProject, newProjectName, now, reading>>

\* typing into the rename box of a rendered node
handleRename(id, newName) ==
  /\ Step
  /\ phase = "running"
  /\ setProjects(updateProjectName(projects, id, newName))
  /\ lastOp' = [op |-> "rename", id |-> id, name |-> newName]
  /\ UNCHANGED <<selectedProject, editorState, isEditingMetadata,
                 isCreatingNewProject, newProjectName, now, reading>>

\* a click on a rendered node, and the effect on [selectedProject]
handleSelectProject(project) ==
  /\ Step
  /\ phase = "running"
  /\ selectedProject' = <<project>>
  /\ isEditingMetadata' = FALSE
  /\ editorState' = EditorFor(project)
  /\ raised' = "none"
  /\ lastOp' = [op |-> "select", id |-> project.id]
  /\ UNCHANGED <<phase, projects, slot, isCreatingNewProject, newProjectName,
                 now, reading>>

\* onEditorStateChange: the editor is shown for a selected chapter
setEditorState(text) ==
  /\ Step
  /\ phase = "running"
  /\ selectedProject # <<>>
  /\ selectedProject[1].type = "chapter"
  /\ editorState' = text
  /\ raised' = "none"
  /\ lastOp' = [op |-> "edit"]
  /\ UNCHANGED <<phase, projects, slot, selectedProject, isEditingMetadata,
                 isCreatingNewProject, newProjectName, now, reading>>

\* a derivation that stamps the creation date as well
DeriveOnSaveStamping(metadata, plainText, t) ==
  LET newWordCount == countWords(plainText)
  IN [metadata EXCEPT
        !.actualWordCount = newWordCount,
        !.lastModified = t,
        !.creationDate = t,
        !.completionPercentage = CompletionOf(newWordCount, metadata.wordCountGoal),
        !.estimatedReadingTime = ReadingTimeOf(newWordCount)]

\* the metadata handleSaveContent derives from the selection's metadata
DeriveOnSave(metadata, plainText, t) ==
  LET newWordCount == countWords(plainText)
  IN [metadata EXCEPT
        !.actualWordCount = newWordCount,
        !.lastModified = t,
        !.completionPercentage = CompletionOf(newWordCount, metadata.wordCountGoal),
        !.estimatedReadingTime = ReadingTimeOf(newWordCount)]

\* Save Project button and Ctrl+S
handleSaveContent ==
  /\ Step
  /\ phase = "running"
  /\ selectedProject # <<>>
  /\ selectedProject[1].type = "chapter"
  /\ LET content == SerializeEditor(editorState)
         updatedMetadata == DeriveOnSave(selectedProject[1].metadata, editorState, now)
         updatedProjects == updateProjectContent(projects, selectedProject[1].id,
                                                 content, updatedMetadata)
     IN /\ setProjects(updatedProjects)
        /\ selectedProject' = <<[selectedProject[1] EXCEPT !.content = content,
                                                          !.metadata = updatedMetadata]>>
        /\ editorState' = EditorFor(selectedProject'[1])
  /\ lastOp' = [op |-> "saveContent", id |-> selectedProject[1].id]
  /\ UNCHANGED <<isEditingMetadata, isCreatingNewProject, newProjectName, now,
                 reading>>

\* the Edit Metadata / Hide Metadata button
ToggleMetadata ==
  /\ Step
  /\ phase = "running"
  /\ selectedProject # <<>>
  /\ isEditingMetadata' = ~isEditingMetadata
  /\ raised' = "none"
  /\ lastOp' = [op |-> "toggleMetadata"]
  /\ UNCHANGED <<phase, projects, slot, selectedProject, editorState,
                 isCreatingNewProject, newProjectName, now, reading>>

\* an onChange of the metadata editor: newMetadata is the selection's
\* metadata with one field replaced
handleUpdateMetadata(field, value) ==
  /\ Step
  /\ phase = "running"
  /\ selectedProject # <<>>
  /\ isEditingMetadata
  /\ LET newMetadata == [selectedProject[1].metadata EXCEPT ![field] = value]
     IN /\ setProjects(updateProjectMetadata(projects, selectedProject[1].id,
                                             newMetadata))
        /\ selectedProject' = <<[selectedProject[1] EXCEPT !.metadata = newMetadata]>>
        /\ editorState' = EditorFor(selectedProject'[1])
  /\ isEditingMetadata' = FALSE
  /\ lastOp' = [op |-> "updateMetadata", id |-> selectedProject[1].id,
                field |-> field]
  /\ UNCHANGED <<isCreatingNewProject, newProjectName, now, reading>>

\* handleUpdateMetadata called with newMetadata, a record of some of the
\* metadata fields
handleUpdateMetadataWith(newMetadata) ==
  /\ Step
  /\ phase = "running"
  /\ selectedProject # <<>>
  /\ setProjects(updateProjectMetadata(projects, selectedProject[1].id,
                                       newMetadata))
  /\ selectedProject' = <<[selectedProject[1] EXCEPT !.metadata = newMetadata]>>
  /\ editorState' = EditorFor(selectedProject'[1])
  /\ isEditingMetadata' = FALSE
  /\ lastOp' = [op |-> "updateMetadataWith", id |-> selectedProject[1].id,
                metadata |-> newMetadata]
  /\ UNCHANGED <<isCreatingNewProject, newProjectName, now, reading>>

\* a drag that lifts the element at sourceIndex of the rendered list at `path`
\* and drops it on the rendered list at destPath (destination is <<>> when
\* dropped outside, else <<index>>); indices are 0-based positions of those
\* lists.  onDragEnd reads only the two indices.
onDragEnd(path, sourceIndex, destPath, destination) ==
  /\ Step
  /\ phase = "running"
  /\ IF destination = <<>>
     THEN UNCHANGED <<phase, projects, slot>> /\ raised' = "none"
     ELSE setProjects(Reorder(projects, sourceIndex, destination[1]))
  /\ lastOp' = [op |-> "drag", path |-> path, source |-> sourceIndex,
                destPath |-> IF destination = <<>> THEN path ELSE destPath,
                destination |-> destination]
  /\ UNCHANGED <<selectedProject, editorState, isEditingMetadata,
                 isCreatingNewProject, newProjectName, now, reading>>

\* Clear All: removeItem, then setProjects([]) saves '[]'
clearLocalStorage ==
  /\ Step
  /\ phase = "running"
  /\ setProjects(<<>>)
  /\ lastOp' = [op |-> "clear"]
  /\ UNCHANGED <<selectedProject, editorState, isEditingMetadata,
                 isCreatingNewProject, newProjectName, now, reading>>

handleSaveAllProjects ==
  /\ Step
  /\ phase = "running"
  /\ slot' = saveProjectsToLocalStorage(projects)
  /\ raised' = "none"
  /\ lastOp' = [op |-> "saveAll"]
  /\ UNCHANGED <<phase, projects, selectedProject, editorState,
                 isEditingMetadata, isCreatingNewProject, newProjectName, now,
                 reading>>

handleLoadProjects ==
  /\ Step
  /\ phase = "running"
  /\ IF LoadThrows(slot)
     THEN UNCHANGED <<phase, projects, slot>> /\ raised' = "SyntaxError"
     ELSE setProjects(loadProjectsFromLocalStorage(slot))
  /\ lastOp' = [op |-> "load"]
  /\ UNCHANGED <<selectedProject, editorState, isEditingMetadata,
                 isCreatingNewProject, newProjectName, now, reading>>

\* Export: the download is the text JSON.stringify(projects)
handleExportProjects ==
  /\ Step
  /\ phase = "running"
  /\ raised' = "none"
  /\ lastOp' = [op |-> "export", file |-> JsonStringify(projects)]
  /\ UNCHANGED <<phase, projects, slot, selectedProject, editorState,
                 isEditingMetadata, isCreatingNewProject, newProjectName, now,
                 reading>>

\* Import: the file is chosen and reader.readAsText(file) starts (one read
\* in flight at a time)
handleImportProjects(file) ==
  /\ Step
  /\ phase = "running"
  /\ reading = <<>>
  /\ reading' = <<file>>
  /\ raised' = "none"
  /\ lastOp' = [op |-> "import"]
  /\ UNCHANGED <<phase, projects, slot, selectedProject, editorState,
                 isEditingMetadata, isCreatingNewProject, newProjectName, now>>

\* reader.onload with the imported list added to the forest
ReaderOnloadMerging ==
  /\ Step
  /\ phase = "running"
  /\ reading # <<>>
  /\ reading' = <<>>
  /\ IF ParseThrows(reading[1])
     THEN UNCHANGED <<phase, projects, slot>> /\ raised' = "SyntaxError"
     ELSE setProjects(projects \o JsonParse(reading[1]))
  /\ lastOp' = [op |-> "onload", file |-> reading[1]]
  /\ UNCHANGED <<selectedProject, editorState, isEditingMetadata,
                 isCreatingNewProject, newProjectName, now>>

\* reader.onload with the forest reset when the text does not parse
ReaderOnloadResets ==
  /\ Step
  /\ phase = "running"
  /\ reading # <<>>
  /\ reading' = <<>>
  /\ IF ParseThrows(reading[1])
     THEN setProjects(<<>>)
     ELSE setProjects(JsonParse(reading[1]))
  /\ lastOp' = [op |-> "onload", file |-> reading[1]]
  /\ UNCHANGED <<selectedProject, editorState, isEditingMetadata,
                 isCreatingNewProject, newProjectName, now>>

\* reader.onload
ReaderOnload ==
  /\ Step
  /\ phase = "running"
  /\ reading # <<>>
  /\ reading' = <<>>
  /\ IF ParseThrows(reading[1])
     THEN UNCHANGED <<phase, projects, slot>> /\ raised' = "SyntaxError"
     ELSE setProjects(JsonParse(reading[1]))
  /\ lastOp' = [op |-> "onload", file |-> reading[1]]
  /\ UNCHANGED <<selectedProject, editorState, isEditingMetadata,
                 isCreatingNewProject, newProjectName, now>>

\* ---------------------------------------------------------- specification
\* what is on screen: nothing once a render has thrown
Screen == IF phase = "running" THEN Rendered(projects) ELSE {}

DragLists == IF phase = "running" THEN Droppables(projects, <<>>) ELSE {}

\* the Droppables that accept a Draggable lifted from the list at `path`:
\* those of the same type, and the type is `level-${level}`
DropTargets(path) == {destPath \in DragLists : Len(destPath) = Len(path)}

\* the places of the list at destPath where the lifted element can land: one
\* of the positions of its own list, or one more on a list it is not in
DropSlots(path, destPath) ==
  {<<j>> : j \in 0..(IF destPath = path
                      THEN Len(ListAt(projects, path)) - 1
                      ELSE Len(ListAt(projects, destPath)))}

Next ==
  \/ Mount
  \/ Reload
  \/ Tick
  \/ handleCreateNewProject
  \/ \E project \in Screen : handleCreateNewChapter(project)
  \/ \E project \in Screen : DeleteClick(project)
  \/ \E project \in Screen : \E newName \in Names :
        handleRename(project.id, newName)
  \/ \E project \in Screen : handleSelectProject(project)
  \/ \E text \in Texts : setEditorState(text)
  \/ handleSaveContent
  \/ ToggleMetadata
  \/ \E e \in MetaEdits : handleUpdateMetadata(e[1], e[2])
  \/ \E path \in DragLists :
        \E sourceIndex \in 0..(Len(ListAt(projects, path)) - 1) :
           \E destPath \in DropTargets(path) :
              \E destination \in {<<>>} \cup DropSlots(path, destPath) :
                 onDragEnd(path, sourceIndex, destPath, destination)
  \/ clearLocalStorage
  \/ handleSaveAllProjects
  \/ handleLoadProjects
  \/ handleExportProjects
  \/ \E file \in ImportFiles : handleImportProjects(file)
  \/ ReaderOnload

Spec == Init /\ [][Next]_vars

\* ------------------------------------------------- what the contract says
\* the forest without every node whose id is `id` (and so without its subtree)
RECURSIVE RemoveSubtree(_, _)
RemoveSubtree(items, id) ==
  LET kept == WithoutId(items, id)
  IN [i \in 1..Len(kept) |->
        [kept[i] EXCEPT !.children = RemoveSubtree(@, id)]]

Ids(items) == {Flatten(items)[i].id : i \in 1..Len(Flatten(items))}

Occurrences(items, id) ==
  Cardinality({i \in 1..Len(Flatten(items)) : Flatten(items)[i].id = id})

\* the forest with the list at `path` replaced by `list`
RECURSIVE ReplaceListAt(_, _, _)
ReplaceListAt(items, path, list) ==
  IF path = <<>> THEN list
  ELSE [items EXCEPT ![Head(path)].children = ReplaceListAt(@, Tail(path), list)]

\* the children of the first node with this id, <<>> if there is none
ChildrenOfId(items, id) ==
  LET flat == Flatten(items)
      at == {i \in 1..Len(flat) : flat[i].id = id}
  IN IF at = {} THEN <<>>
     ELSE flat[CHOOSE i \in at : \A j \in at : i <= j].children

\* the node that owns the list at a non-empty path
RECURSIVE OwnerOf(_, _)
OwnerOf(items, path) ==
  IF Len(path) = 1 THEN items[Head(path)]
  ELSE OwnerOf(items[Head(path)].children, Tail(path))

\* the schema of section 3: a list of nodes, of kind container or document,
\* a document without children, a goal that is a non-negative integer,
\* derived numbers that are numbers
MetadataValid(m) ==
  /\ m.status \in {"Not Started", "In Progress", "Completed"}
  /\ m.wordCountGoal.k = "num" /\ m.wordCountGoal.den = 1 /\ m.wordCountGoal.num >= 0
  /\ m.completionPercentage.k = "num"

RECURSIVE SchemaValid(_)
SchemaValid(items) ==
  \A i \in 1..Len(items) :
     /\ items[i].k = "node"
     /\ items[i].type \in {"project", "chapter"}
     /\ items[i].type = "chapter" => items[i].children = <<>>
     /\ MetadataValid(items[i].metadata)
     /\ SchemaValid(items[i].children)

\* ----------------------------------------------------------------- claims
\* C1: Delete isolation. When the node of a Delete click occurs exactly once
\* in the forest, the click removes that node with its subtree and leaves
\* every other node, with its fields and sibling order, as it was.
DeleteIsolation ==
  [][(lastOp'.op = "delete" /\ Occurrences(projects, lastOp'.id) = 1)
       => projects' = RemoveSubtree(projects, lastOp'.id)]_vars

\* C2: Reorder permutation. A drag with a destination on a sibling list, from
\* index i to index j # i, leaves the moved element at position j of that
\* list and the other elements of the list in their previous order.
ReorderPermutation ==
  [][(lastOp'.op = "drag" /\ lastOp'.destination # <<>>
        /\ lastOp'.destPath = lastOp'.path
        /\ lastOp'.destination[1] # lastOp'.source)
       => LET path == lastOp'.path
              i == lastOp'.source
              j == lastOp'.destination[1]
              before == ListAt(projects, path)
              after == IF path = <<>> THEN projects'
                       ELSE ChildrenOfId(projects', OwnerOf(projects, path).id)
          IN /\ Len(after) = Len(before)
             /\ after[j + 1] = before[i + 1]
             /\ SpliceOut(after, j) = SpliceOut(before, i)]_vars

\* C3: Reorder is scoped to its list. A drag with a destination raised on the
\* list at one parent and level takes the element at sourceIndex out of that
\* list and puts it back at destIndex in that list; the root list and every
\* other children list stay as they were.
ReorderScoped ==
  [][(lastOp'.op = "drag" /\ lastOp'.destination # <<>>
        /\ lastOp'.destPath = lastOp'.path)
       => projects' =
            ReplaceListAt(projects, lastOp'.path,
                          Reorder(ListAt(projects, lastOp'.path),
                                  lastOp'.source, lastOp'.destination[1]))]_vars

\* C4: Zero-goal guard. After a content save, a saved document whose
\* wordCountGoal is 0 has completionPercentage 0.
ZeroGoalGuard ==
  lastOp.op = "saveContent" =>
    \A i \in 1..Len(Flatten(projects)) :
       LET node == Flatten(projects)[i]
       IN (node.id = lastOp.id /\ node.type = "chapter"
             /\ node.metadata.wordCountGoal = Num(0))
            => node.metadata.completionPercentage = Num(0)

\* C5: Load resilience. A load at start-up or by the Load action, with the
\* slot absent, empty or corrupted, raises nothing and gives the empty forest.
LoadResilience ==
  [][(lastOp'.op \in {"mount", "load"}
        /\ slot.k \in {"absent", "empty", "corrupt"})
       => (raised' = "none" /\ phase' = "running" /\ projects' = <<>>)]_vars

\* C6: Import atomicity. When the imported text does not parse, the forest
\* after the import attempt equals the forest before it and the slot is not
\* rewritten.
ImportAtomicity ==
  [][(lastOp'.op = "onload" /\ ParseThrows(lastOp'.file))
       => (projects' = projects /\ slot' = slot)]_vars

\* a malformed import has been attempted on a forest that is not empty
ImportAtomicityWitness ==
  /\ lastOp.op = "onload"
  /\ ParseThrows(lastOp.file)
  /\ projects # <<>>
  /\ phase = "running"

\* C7: Import schema validation. When the imported text parses but is no
\* schema-valid forest, the import fails with ParseError and forest and slot
\* stay as they were.
ImportSchemaValidation ==
  [][(lastOp'.op = "onload" /\ ~ParseThrows(lastOp'.file)
        /\ ~SchemaValid(JsonParse(lastOp'.file)))
       => (projects' = projects /\ slot' = slot /\ raised' = "ParseError")]_vars

\* C8: Id uniqueness. No two nodes of the forest have the same id, also when
\* two creations happen without the clock advancing between them.
IdUniqueness ==
  phase = "running" => \A id \in Ids(projects) : Occurrences(projects, id) = 1

\* the operations that change the forest
MutatingOps ==
  {"createProject", "createChapter", "delete", "rename", "drag",
   "updateMetadata", "saveContent"}

\* C9: Persistence sync. After a create, delete, rename, reorder, metadata
\* update or content save, the slot holds the serialization of the forest and
\* a load of it gives a forest equal to the one in memory.
PersistenceSync ==
  (lastOp.op \in MutatingOps /\ (lastOp.op = "drag" => lastOp.destination # <<>>))
    => /\ slot = JsonStringify(projects)
       /\ ~LoadThrows(slot)
       /\ loadProjectsFromLocalStorage(slot) = projects

\* ------------------------------------------- export and import, in isolation
\* the longest root list of the forests the codec is tried on
MaxRoots == 2

SavedChapter ==
  [SampleChapter(9, SerializeEditor(<<"a">>)) EXCEPT
     !.metadata = [DefaultMetadata(0) EXCEPT
                     !.status = "In Progress",
                     !.wordCountGoal = Num(3),
                     !.actualWordCount = 1,
                     !.completionPercentage = Frac(FullPercent, 3),
                     !.estimatedReadingTime = 1,
                     !.tags = <<"x">>]]

NestedProject ==
  [k |-> "node", id |-> 5, name |-> "Outer", type |-> "project",
   children |-> <<[k |-> "node", id |-> 6, name |-> "Inner", type |-> "project",
                   children |-> <<SampleChapter(4, ContentEmpty), SavedChapter>>,
                   content |-> ContentAbsent, metadata |-> DefaultMetadata(0)]>>,
   content |-> ContentAbsent, metadata |-> DefaultMetadata(0)]

\* a chapter whose goal box was emptied and whose content was then saved
NaNChapter ==
  [SampleChapter(3, SerializeEditor(<<"a">>)) EXCEPT
     !.metadata = [DefaultMetadata(0) EXCEPT
                     !.wordCountGoal = NaN,
                     !.actualWordCount = 1,
                     !.completionPercentage = NaN,
                     !.estimatedReadingTime = 1]]

CodecNodes ==
  {SampleChapter(8, ContentGarbage), SavedChapter, SampleForest[1],
   NestedProject, NaNChapter}

CodecForests == UNION {[1..n -> CodecNodes] : n \in 0..MaxRoots}

InitCodec ==
  /\ phase = "running"
  /\ projects \in CodecForests
  /\ slot = saveProjectsToLocalStorage(projects)
  /\ selectedProject = <<>>
  /\ editorState = <<>>
  /\ isEditingMetadata = FALSE
  /\ isCreatingNewProject = FALSE
  /\ newProjectName = ""
  /\ now = 1
  /\ reading = <<>>
  /\ raised = "none"
  /\ steps = 0
  /\ lastOp = [op |-> "none"]

\* the user exports, picks the downloaded file for import, and may clear or
\* save the forest at any point in between
NextCodec ==
  \/ handleExportProjects
  \/ (lastOp.op = "export" /\ handleImportProjects(lastOp.file))
  \/ ReaderOnload
  \/ clearLocalStorage
  \/ handleSaveAllProjects

SpecCodec == InitCodec /\ [][NextCodec]_vars

OpNodes ==
  UNION {{Flatten(<<n>>)[i] : i \in 1..Len(Flatten(<<n>>))} : n \in CodecNodes}

\* a forest of the sample nodes, with a selection that may be stale and the
\* editor as the user left it
InitOps ==
  /\ phase = "running"
  /\ projects \in CodecForests
  /\ slot = saveProjectsToLocalStorage(projects)
  /\ selectedProject \in {<<>>} \cup {<<n>> : n \in OpNodes}
  /\ editorState \in IF selectedProject # <<>> /\ selectedProject[1].type = "chapter"
                     THEN Texts ELSE {<<>>}
  /\ isEditingMetadata \in IF selectedProject # <<>> THEN BOOLEAN ELSE {FALSE}
  /\ isCreatingNewProject = FALSE
  /\ newProjectName = ""
  /\ now = 1
  /\ reading = <<>>
  /\ raised = "none"
  /\ steps = 0
  /\ lastOp = [op |-> "none"]

\* records of some of the metadata fields: one user-set field, two of them,
\* and a derived field passed along
PartialMetadata ==
  {[status |-> "Completed"],
   [wordCountGoal |-> Num(2), tags |-> <<"x">>],
   [author |-> "Ann", actualWordCount |-> 7]}

\* no handler has run yet
Untouched == lastOp.op = "none"

\* one handler runs on the forest
NextOps ==
  \/ \E project \in OpNodes : \E newName \in Names :
        Untouched /\ handleRename(project.id, newName)
  \/ \E project \in OpNodes : Untouched /\ DeleteClick(project)
  \/ \E project \in OpNodes : Untouched /\ handleCreateNewChapter(project)
  \/ (Untouched /\ handleCreateNewProject)
  \/ (Untouched /\ handleSaveContent)
  \/ \E e \in MetaEdits : Untouched /\ handleUpdateMetadata(e[1], e[2])
  \/ \E newMetadata \in PartialMetadata :
        Untouched /\ handleUpdateMetadataWith(newMetadata)

SpecOps == InitOps /\ [][NextOps]_vars

\* the forest with the name of every node whose id is `id` blanked
RECURSIVE NameErased(_, _)
NameErased(items, id) ==
  [i \in 1..Len(items) |->
     [items[i] EXCEPT !.name = IF items[i].id = id THEN "" ELSE @,
                      !.children = NameErased(@, id)]]

\* the positions, in document order, of the nodes whose id is `id`
PositionsOf(items, id) ==
  {i \in 1..Len(Flatten(items)) : Flatten(items)[i].id = id}

\* C11: Rename purity. A rename of id to X changes nothing but the name of
\* nodes whose id is id: lastModified, content, metadata and children of those
\* nodes and all of every other node stay as they were; and the first node
\* with that id, at whatever depth it sits, has the name X afterwards.
RenamePurity ==
  [][lastOp'.op = "rename"
       => /\ NameErased(projects', lastOp'.id) = NameErased(projects, lastOp'.id)
          /\ \A i \in PositionsOf(projects, lastOp'.id) :
                (\A j \in PositionsOf(projects, lastOp'.id) : i <= j)
                  => Flatten(projects')[i].name = lastOp'.name]_vars

\* a node two levels below the root list has been renamed
RenamePurityWitness ==
  /\ lastOp.op = "rename"
  /\ \E i \in 1..Len(projects) :
        \E j \in 1..Len(projects[i].children) :
           \E n \in 1..Len(projects[i].children[j].children) :
              LET node == projects[i].children[j].children[n]
              IN /\ node.id = lastOp.id
                 /\ node.name = lastOp.name
                 /\ node.metadata.actualWordCount > 0

\* the handlers that look a node up by id
LookupOps == {"delete", "rename", "saveContent", "updateMetadata"}

\* C12: Unknown id is a no-op. A delete, rename, content save or metadata
\* update called with an id that occurs nowhere in the forest leaves a forest
\* equal to the one before and raises nothing.
UnknownIdNoOp ==
  [][(lastOp'.op \in LookupOps /\ lastOp'.id \notin Ids(projects))
       => (projects' = projects /\ raised' = "none")]_vars

\* a content save through a stale selection has run on a nested forest that
\* does not hold the selected id
UnknownIdNoOpWitness ==
  /\ lastOp.op = "saveContent"
  /\ lastOp.id \notin Ids(projects)
  /\ \E i \in 1..Len(projects) : projects[i] = NestedProject
  /\ raised = "none"

\* the forest with newNode appended to the children of every node whose id
\* is parentId, at any depth
RECURSIVE AppendedUnder(_, _, _)
AppendedUnder(items, parentId, newNode) ==
  [i \in 1..Len(items) |->
     [items[i] EXCEPT
        !.children = IF items[i].id = parentId
                     THEN Append(AppendedUnder(@, parentId, newNode), newNode)
                     ELSE AppendedUnder(@, parentId, newNode)]]

\* the containers of a forest
Containers(items) ==
  {Flatten(items)[i].id :
     i \in {j \in 1..Len(Flatten(items)) : Flatten(items)[j].type = "project"}}

\* C13: create appends. A create under a container that occurs once in the
\* forest, at any depth, appends one new node with default metadata and no
\* children as the last child of that container; a create with no parent
\* appends the node at the end of the root list; nothing else changes.
CreateAppends ==
  [][/\ (lastOp'.op = "createChapter"
           /\ lastOp'.parent \in Containers(projects)
           /\ Occurrences(projects, lastOp'.parent) = 1)
          => projects' = AppendedUnder(projects, lastOp'.parent, NewChapter(now))
     /\ lastOp'.op = "createProject"
          => projects' = Append(projects, NewProject(now, newProjectName))]_vars

\* C14: create under an absent parent. A create whose parent id occurs
\* nowhere in the forest fails with NotFoundError and leaves the forest as it
\* was.
CreateUnderAbsentParent ==
  [][(lastOp'.op = "createChapter" /\ lastOp'.parent \notin Ids(projects))
       => (raised' = "NotFoundError" /\ projects' = projects)]_vars

\* ------------------------------------------- a content save, in isolation
\* a plain text of n words
Words(n) == [i \in 1..(2 * n - 1) |-> IF i % 2 = 1 THEN "a" ELSE " "]

\* the word counts of the texts saved and the goals they are saved against
DeriveCounts == {1, 2, 100, 250, 251, 500, 501, 750}
DeriveGoals == {1, 3, 250, 333, 500, 1000, 2000}

\* a chapter of the sample project with the goal g, not yet saved
GoalChapter(g) ==
  [SampleChapter(9, ContentEmpty) EXCEPT !.metadata.wordCountGoal = Num(g)]

\* the chapter is selected and the user has typed a text into the editor
InitDerive ==
  /\ phase = "running"
  /\ \E g \in DeriveGoals :
        /\ projects = <<[SampleForest[1] EXCEPT !.children = <<GoalChapter(g)>>]>>
        /\ selectedProject = <<GoalChapter(g)>>
  /\ slot = saveProjectsToLocalStorage(projects)
  /\ editorState \in {Words(n) : n \in DeriveCounts}
  /\ isEditingMetadata = FALSE
  /\ isCreatingNewProject = FALSE
  /\ newProjectName = ""
  /\ now = 1
  /\ reading = <<>>
  /\ raised = "none"
  /\ steps = 0
  /\ lastOp = [op |-> "none"]

\* Save Project is pressed once
NextDerive == Untouched /\ handleSaveContent

SpecDerive == InitDerive /\ [][NextDerive]_vars

\* the least integer that is not below n / d, for n >= 0 and d > 0
CeilDiv(n, d) == CHOOSE q \in 0..n : q * d >= n /\ (q = 0 \/ (q - 1) * d < n)

\* min(n / g * 100, 100) for a goal g > 0 that is a number
PercentOf(n, g) ==
  IF n * g.den >= g.num THEN Num(100) ELSE Frac(n * 100 * g.den, g.num)

\* C15: Metadata derivation. A content save of a text of n words on a
\* document whose wordCountGoal g is above 0 leaves that document with
\* actualWordCount n, estimatedReadingTime ceil(n / 250) and
\* completionPercentage min(n / g * 100, 100); with g = 2000 and n = 500
\* these are 500, 2 and 25.
MetadataDerivation ==
  [][lastOp'.op = "saveContent"
       => \A i \in PositionsOf(projects, lastOp'.id) :
             LET g == Flatten(projects)[i].metadata.wordCountGoal
                 n == countWords(editorState)
                 saved == Flatten(projects')[i].metadata
             IN (g.k = "num" /\ g.num > 0)
                  => /\ saved.actualWordCount = n
                     /\ saved.estimatedReadingTime = CeilDiv(n, 250)
                     /\ saved.completionPercentage = PercentOf(n, g)
                     /\ (g = Num(2000) /\ n = 500)
                          => /\ saved.actualWordCount = 500
                             /\ saved.estimatedReadingTime = 2
                             /\ saved.completionPercentage = Num(25)]_vars

\* a text of 500 words has been saved on a chapter with the goal 2000
MetadataDerivationWitness ==
  /\ lastOp.op = "saveContent"
  /\ \E i \in 1..Len(Flatten(projects)) :
        LET node == Flatten(projects)[i]
        IN /\ node.id = lastOp.id
           /\ node.content = SerializeEditor(Words(500))
           /\ node.metadata.wordCountGoal = Num(2000)
           /\ node.metadata.actualWordCount = 500
           /\ node.metadata.completionPercentage = Num(25)

\* --------------------------------------------- claims on the whole program
\* C16: clear(). When the Clear All action has completed, the slot holds no
\* stored value and the forest in memory is empty.
ClearErases ==
  lastOp.op = "clear" => (slot = TextAbsent /\ projects = <<>>)

\* C17: Same-parent drags. Every drag with a destination has its source and
\* its destination in the children list of the same parent.
DragSameParent ==
  (lastOp.op = "drag" /\ lastOp.destination # <<>>)
    => lastOp.destPath = lastOp.path

\* C18: Completion invariant. In every reachable state every node whose goal
\* is a non-negative number has completionPercentage equal to
\* clamp(actualWordCount / wordCountGoal * 100, 0, 100), and to 0 when the
\* goal is 0.
CompletionInvariant ==
  \A i \in 1..Len(Flatten(projects)) :
     LET m == Flatten(projects)[i].metadata
     IN (m.wordCountGoal.k = "num" /\ m.wordCountGoal.num >= 0)
          => m.completionPercentage =
               IF m.wordCountGoal.num = 0 THEN Num(0)
               ELSE PercentOf(m.actualWordCount, m.wordCountGoal)

\* the position, in document order, of the first node whose id is `id`
FirstPositionOf(items, id) ==
  {i \in PositionsOf(items, id) : \A j \in PositionsOf(items, id) : i <= j}

\* C19: lastModified. A content save and a metadata update of a node set its
\* lastModified to the current time; a rename changes no lastModified.
LastModifiedRule ==
  [][/\ lastOp'.op \in {"saveContent", "updateMetadata"}
          => \A i \in FirstPositionOf(projects, lastOp'.id) :
                Flatten(projects')[i].metadata.lastModified = now
     /\ lastOp'.op = "rename"
          => \A i \in 1..Len(Flatten(projects)) :
                Flatten(projects')[i].metadata.lastModified
                  = Flatten(projects)[i].metadata.lastModified]_vars

\* C20: Goal coercion. In every reachable state the wordCountGoal of every
\* node is a non-negative integer and none of completionPercentage,
\* estimatedReadingTime and actualWordCount is NaN or negative.
GoalCoerced ==
  \A i \in 1..Len(Flatten(projects)) :
     LET m == Flatten(projects)[i].metadata
     IN /\ m.wordCountGoal.k = "num"
        /\ m.wordCountGoal.den = 1
        /\ m.wordCountGoal.num >= 0
        /\ m.completionPercentage.k = "num"
        /\ m.completionPercentage.num >= 0
        /\ m.estimatedReadingTime >= 0
        /\ m.actualWordCount >= 0

\* the forest with the content of every node whose id is `id` set to content
RECURSIVE WithContent(_, _, _)
WithContent(items, id, content) ==
  [i \in 1..Len(items) |->
     [items[i] EXCEPT !.content = IF items[i].id = id THEN content ELSE @,
                      !.children = WithContent(@, id, content)]]

\* the forest with the three derived fields and lastModified of every node
\* whose id is `id` blanked
RECURSIVE DerivedErased(_, _)
DerivedErased(items, id) ==
  [i \in 1..Len(items) |->
     [items[i] EXCEPT
        !.metadata = IF items[i].id = id
                     THEN [@ EXCEPT !.actualWordCount = 0,
                                    !.completionPercentage = Num(0),
                                    !.estimatedReadingTime = 0,
                                    !.lastModified = 0]
                     ELSE @,
        !.children = DerivedErased(@, id)]]

\* C21: updateContent frame. A content save on a document that occurs once in
\* the forest sets its content, its actualWordCount, estimatedReadingTime and
\* lastModified (and its completionPercentage) in one step; status,
\* wordCountGoal, creationDate, tags, author and version of that node keep the
\* values they have in the forest, and no other node changes.
UpdateContentFrame ==
  [][(lastOp'.op = "saveContent" /\ Occurrences(projects, lastOp'.id) = 1)
       => /\ DerivedErased(projects', lastOp'.id)
               = DerivedErased(WithContent(projects, lastOp'.id,
                                           SerializeEditor(editorState)),
                               lastOp'.id)
          /\ \A i \in PositionsOf(projects, lastOp'.id) :
                LET saved == Flatten(projects')[i].metadata
                IN /\ saved.actualWordCount = countWords(editorState)
                   /\ saved.estimatedReadingTime
                        = CeilDiv(countWords(editorState), 250)
                   /\ saved.lastModified = now]_vars

\* the forest with the fields of `partial` written into the metadata of every
\* node whose id is `id`
RECURSIVE MergedInto(_, _, _)
MergedInto(items, id, partial) ==
  [i \in 1..Len(items) |->
     [items[i] EXCEPT
        !.metadata = IF items[i].id = id
                     THEN [f \in DOMAIN @ |->
                             IF f \in DOMAIN partial THEN partial[f] ELSE @[f]]
                     ELSE @,
        !.children = MergedInto(@, id, partial)]]

NodeOps ==
  {"rename", "saveContent", "updateMetadata", "drag", "createProject",
   "createChapter", "delete"}

\* C23: creationDate is immutable. A rename, content save, metadata update,
\* reorder, create or delete leaves every node that is still in the forest
\* with the creationDate it had before.
CreationDateImmutable ==
  [][lastOp'.op \in NodeOps
       => LET before == Flatten(projects)
              after == Flatten(projects')
              ids == {before[j].id : j \in 1..Len(before)}
              dated == {<<before[j].id, before[j].metadata.creationDate>> :
                          j \in 1..Len(before)}
          IN \A i \in 1..Len(after) :
                after[i].id \in ids
                  => <<after[i].id, after[i].metadata.creationDate>> \in dated]_vars

\* a chapter created at one time has been saved at a later time and still
\* has its creation date
CreationDateImmutableWitness ==
  /\ lastOp.op = "saveContent"
  /\ \E i \in 1..Len(Flatten(projects)) :
        LET node == Flatten(projects)[i]
        IN /\ node.id = lastOp.id
           /\ node.metadata.lastModified = now
           /\ node.metadata.creationDate < now

\* C24: Content decode failure. Selecting a document whose stored content
\* cannot be decoded opens the empty editor, raises nothing and leaves forest
\* and slot as they were; the next content save of that document puts the
\* serialized editor state in the place of the unreadable payload.
DecodeFailureRecovered ==
  [][/\ (lastOp'.op = "select" /\ selectedProject'[1].type = "chapter"
           /\ selectedProject'[1].content = ContentGarbage)
          => /\ editorState' = <<>>
             /\ raised' = "none"
             /\ phase' = "running"
             /\ projects' = projects
             /\ slot' = slot
     /\ lastOp'.op = "saveContent"
          => \A i \in FirstPositionOf(projects, lastOp'.id) :
                Flatten(projects)[i].content = ContentGarbage
                  => Flatten(projects')[i].content = SerializeEditor(editorState)]_vars

\* an undecodable chapter has been selected, text has been typed and saved:
\* the forest and the slot hold the typed text, and no payload of the forest
\* is unreadable any more... for that chapter
DecodeFailureRecoveredWitness ==
  /\ lastOp.op = "saveContent"
  /\ lastOp.id = 8
  /\ projects = [SampleForest EXCEPT
                   ![1].children[1] = selectedProject[1]]
  /\ selectedProject[1].content.k = "raw"
  /\ selectedProject[1].content.text # <<>>
  /\ slot = JsonStringify(projects)

\* ----------------------------------------------- countWords, in isolation
\* the longest text countWords is tried on
MaxLen == 4

\* every text of letters, blanks and angle brackets up to that length
WordTexts == UNION {[1..n -> {"a", " ", "<", ">"}] : n \in 0..MaxLen}

\* a new chapter is selected and the user has typed a text into the editor
InitWords ==
  /\ phase = "running"
  /\ projects = <<[SampleForest[1] EXCEPT !.children = <<GoalChapter(0)>>]>>
  /\ selectedProject = <<GoalChapter(0)>>
  /\ slot = saveProjectsToLocalStorage(projects)
  /\ editorState \in WordTexts
  /\ isEditingMetadata = FALSE
  /\ isCreatingNewProject = FALSE
  /\ newProjectName = ""
  /\ now = 1
  /\ reading = <<>>
  /\ raised = "none"
  /\ steps = 0
  /\ lastOp = [op |-> "none"]

\* Save Project is pressed once: the count is stored as actualWordCount
NextWords == Untouched /\ handleSaveContent

SpecWords == InitWords /\ [][NextWords]_vars

\* position i of s lies in a substring '<' one-or-more-non-'>' '>': a '>'
\* at q >= i closes a '<' at p <= i, with no '>' from p up to q and at least
\* one character between them
InMarkup(s, i) ==
  \E q \in i..Len(s) :
     /\ s[q] = ">"
     /\ \E p \in 1..i :
           /\ s[p] = "<"
           /\ p + 2 <= q
           /\ \A n \in p..(q - 1) : s[n] # ">"

\* the number of tokens of s: after the markup is deleted, the maximal runs
\* of characters that are not blank; the empty string splits into one token
TokenCount(s) ==
  LET kept == {i \in 1..Len(s) : ~InMarkup(s, i)}
      starts == {i \in kept :
                   /\ ~IsSpace(s[i])
                   /\ \A p \in kept :
                         (p < i /\ \A n \in kept : ~(p < n /\ n < i))
                           => IsSpace(s[p])}
  IN IF starts = {} THEN 1 ELSE Cardinality(starts)

\* C25: countWords. countWords(text) is the number of tokens left after
\* deleting every '<' one-or-more-non-'>' '>', trimming and splitting on runs
\* of whitespace; it is 1 for the empty string and for text of blanks only,
\* and never 0.
CountWordsTokens ==
  lastOp.op = "saveContent"
    => \A i \in 1..Len(Flatten(projects)) :
          LET node == Flatten(projects)[i]
          IN node.id = lastOp.id
               => /\ node.metadata.actualWordCount
                       = TokenCount(node.content.text)
                  /\ node.metadata.actualWordCount = countWords(node.content.text)
                  /\ node.metadata.actualWordCount >= 1
                  /\ (\A n \in 1..Len(node.content.text) :
                         IsSpace(node.content.text[n]))
                       => node.metadata.actualWordCount = 1

\* a text of blanks only has been counted as one word
CountWordsTokensWitness ==
  /\ lastOp.op = "saveContent"
  /\ \E i \in 1..Len(Flatten(projects)) :
        LET node == Flatten(projects)[i]
        IN /\ node.id = lastOp.id
           /\ node.content.text = <<" ", " ">>
           /\ node.metadata.actualWordCount = 1

\* how many times the node n occurs in the sequence seq
CountIn(seq, n) == Cardinality({i \in 1..Len(seq) : seq[i] = n})

\* C26: Reorder conserves nodes. After a drag with a destination, raised on
\* the list of any level with indices of that list, the root list has no
\* undefined entry and the forest holds the nodes it held before, each as
\* many times as before.
ReorderConserves ==
  [][(lastOp'.op = "drag" /\ lastOp'.destination # <<>>
        /\ lastOp'.destPath = lastOp'.path)
       => LET before == Flatten(projects)
              after == Flatten(projects')
          IN /\ \A i \in 1..Len(projects') : projects'[i].k = "node"
             /\ Len(after) = Len(before)
             /\ \A i \in 1..Len(before) :
                   CountIn(after, before[i]) = CountIn(before, before[i])]_vars

\* ----------------------------- a selection that outlives what it points to
\* a sample forest with one of its rendered nodes selected
InitStale ==
  /\ phase = "running"
  /\ projects \in CodecForests
  /\ slot = saveProjectsToLocalStorage(projects)
  /\ selectedProject \in {<<n>> : n \in Rendered(projects)}
  /\ editorState \in IF selectedProject[1].type = "chapter" THEN Texts ELSE {<<>>}
  /\ isEditingMetadata \in BOOLEAN
  /\ isCreatingNewProject = FALSE
  /\ newProjectName = ""
  /\ now = 1
  /\ reading = <<>>
  /\ raised = "none"
  /\ steps = 0
  /\ lastOp = [op |-> "none"]

\* the forest has just been changed under the selection
Replaced == lastOp.op \in {"delete", "clear", "load", "onload"}

\* a node is deleted or the forest is replaced by clear, load or import, and
\* then the user saves or edits metadata through the selection still held
NextStale ==
  \/ \E project \in Screen : Untouched /\ DeleteClick(project)
  \/ (Untouched /\ clearLocalStorage)
  \/ (Untouched /\ handleLoadProjects)
  \/ \E file \in ImportFiles : Untouched /\ handleImportProjects(file)
  \/ (lastOp.op = "import" /\ ReaderOnload)
  \/ (Replaced /\ handleSaveContent)
  \/ \E e \in MetaEdits : Replaced /\ handleUpdateMetadata(e[1], e[2])

SpecStale == InitStale /\ [][NextStale]_vars

\* C27: No resurrection. When the selected node, or an ancestor of it, has
\* been deleted, a content save or metadata update through the selection
\* still held leaves the forest and the slot as the delete left them, and the
\* deleted node is neither in the forest nor in the slot.
NoResurrection ==
  [][(lastOp'.op \in {"saveContent", "updateMetadata"}
        /\ lastOp.op = "delete"
        /\ lastOp'.id \notin Ids(projects))
       => /\ projects' = projects
          /\ slot' = slot
          /\ lastOp'.id \notin Ids(projects')
          /\ lastOp'.id \notin Ids(JsonParse(slot'))]_vars

\* a chapter has been saved through the selection after its project was
\* deleted, and the forest still holds other nodes
NoResurrectionWitness ==
  /\ lastOp.op = "saveContent"
  /\ lastOp.id \notin Ids(projects)
  /\ projects # <<>>
  /\ projects # SampleForest
  /\ phase = "running"
  /\ slot = JsonStringify(projects)

\* C28: Stale selection after a wholesale replace. After the forest has been
\* replaced by an import, a load or a clear while a node was selected, a
\* metadata update or content save through that selection changes no node of
\* the replacement forest.
StaleSelectionHarmless ==
  [][(lastOp'.op \in {"saveContent", "updateMetadata"}
        /\ (\/ lastOp.op \in {"clear", "load"}
            \/ lastOp.op = "onload" /\ ~ParseThrows(lastOp.file)))
       => projects' = projects]_vars

\* ------------------------------------------- edits while a file is read
\* the most edits between the start of a read and its onload
MaxEdits == 2

\* the forests an import is started on, and the files that are imported
ImportTargets == {<<>>, SampleForest, <<NestedProject, SavedChapter>>}
ValidFiles == {FileSample, JsonStringify(<<NestedProject, SavedChapter>>)}

\* reader.readAsText(file) has just been called; a node may be selected
InitImport ==
  /\ phase = "running"
  /\ projects \in ImportTargets
  /\ slot = saveProjectsToLocalStorage(projects)
  /\ selectedProject \in {<<>>} \cup {<<n>> : n \in Rendered(projects)}
  /\ editorState \in IF selectedProject # <<>> /\ selectedProject[1].type = "chapter"
                     THEN Texts ELSE {<<>>}
  /\ isEditingMetadata \in IF selectedProject # <<>> THEN BOOLEAN ELSE {FALSE}
  /\ isCreatingNewProject = FALSE
  /\ newProjectName = ""
  /\ now = 1
  /\ reading \in {<<file>> : file \in ValidFiles}
  /\ raised = "none"
  /\ steps = 0
  /\ lastOp = [op |-> "import"]

\* the read is still in flight and the user goes on editing
Editing == reading # <<>> /\ steps < MaxEdits

NextImport ==
  \/ (Editing /\ handleCreateNewProject)
  \/ \E project \in Screen : Editing /\ handleCreateNewChapter(project)
  \/ \E project \in Screen : Editing /\ DeleteClick(project)
  \/ \E project \in Screen : \E newName \in Names :
        Editing /\ handleRename(project.id, newName)
  \/ (Editing /\ handleSaveContent)
  \/ \E e \in MetaEdits : Editing /\ handleUpdateMetadata(e[1], e[2])
  \/ \E path \in DragLists :
        \E sourceIndex \in 0..(Len(ListAt(projects, path)) - 1) :
           \E destPath \in DropTargets(path) :
              \E destination \in DropSlots(path, destPath) :
                 Editing /\ onDragEnd(path, sourceIndex, destPath, destination)
  \/ ReaderOnload

SpecImport == InitImport /\ [][NextImport]_vars

NewProjectImmediate ==
  /\ isCreatingNewProject = FALSE
  /\ newProjectName = ""
  /\ lastOp.op = "createProject"
       => /\ projects # <<>>
          /\ projects[Len(projects)].id = lastOp.id
          /\ projects[Len(projects)].type = "project"
          /\ projects[Len(projects)].name = ""

\* New Project has been clicked on a forest that was not empty
NewProjectImmediateWitness ==
  /\ lastOp.op = "createProject"
  /\ Len(projects) >= 2
  /\ projects[Len(projects)].name = ""
  /\ projects[Len(projects)].children = <<>>

====
